---- MODULE Spec2Model ----
(***************************************************************************)
(* Model of the readingNovelty scoring engine:                             *)
(*   - PDFProcessor.chunk_text            (src/pdf_processor.py)           *)
(*   - NoveltyDetector.analyze_novelty and calculate_novelty_score         *)
(*                                         (src/novelty_detector.py)       *)
(*                                                                         *)
(* Strings are modelled as sequences of words.  A word is a pair           *)
(* <<paragraph number, position>>, so every word of an input is distinct   *)
(* and a lost, duplicated or reordered paragraph is visible.  Scores are   *)
(* fixed-point numbers: the integer s stands for the float s / One.        *)
(* Where whitespace matters (the fallback description) a text is a         *)
(* sequence of tokens: words, and whitespace characters <<0, c>>.          *)
(***************************************************************************)
EXTENDS Integers, Sequences, FiniteSets, TLC

\* ------------------------------------------------------------------ bounds
MaxParas == 4
MaxParaWords == 4
MaxBound == 3
MaxChunks == 2
MaxDim == 2
MaxCoord == 1
MaxScoreChunks == 6
MaxScenarioParas == 3
MaxTokens == 52

VARIABLES
    \* PDFProcessor / chunk_text
    min_chunk_words,      \* self.min_chunk_words
    max_chunk_words,      \* self.max_chunk_words
    paragraphs,           \* re.split(r'\n\s*\n', text): the raw paragraphs
    para_idx,             \* position of the for loop over paragraphs
    chunks,               \* the chunks list
    current_chunk,        \* the accumulator (list of paragraphs)
    current_word_count,   \* the accumulator's running word count
    flushed,              \* history: for each chunk, its paragraphs and the branch that emitted it
    cpc,                  \* chunk_text's position: "idle", "loop", "done"
    \* NoveltyDetector / analyze_novelty
    num_chunks,           \* len(chunks) of the list handed to analyze_novelty
    llm_type,             \* self.llm_type
    embeddings,           \* the embeddings of all chunk texts, one row per chunk
    i,                    \* the loop index of "for i, chunk in enumerate(chunks)"
    novelty_scores,       \* the novelty_scores list
    result,               \* the list analyze_novelty returned
    raised,               \* whether an exception left analyze_novelty
    aborted,              \* history: what sent the run to the outer handler
    index,                \* history: the rows of the faiss index built last
    index_builds,         \* history: how many faiss indexes the run has built
    step,                 \* history: the last loop iteration (its calls and their outcomes)
    pc,                   \* analyze_novelty's position: "idle", "embed", "loop", "done";
                          \* "score", "scored" around a single call of calculate_novelty_score
    \* NoveltyDetector / generate_prompt_for_chunk, called on its own
    anthropic_key,        \* os.getenv('ANTHROPIC_API_KEY')
    openai_key,           \* os.getenv('OPENAI_API_KEY')
    chunk,                \* the chunk argument
    context_before,       \* the context_before argument
    context_after,        \* the context_after argument
    prompt,               \* what the call returned, and how
    ppc                   \* the call's position: "idle", "call", "returned"

chunk_vars == <<min_chunk_words, max_chunk_words, paragraphs, para_idx, chunks,
                current_chunk, current_word_count, flushed, cpc>>

novelty_vars == <<num_chunks, llm_type, embeddings, i, novelty_scores, result,
                  raised, aborted, index, index_builds, step, pc>>

prompt_vars == <<anthropic_key, openai_key, chunk, context_before, context_after,
                 prompt, ppc>>

vars == <<chunk_vars, novelty_vars, prompt_vars>>

\* ------------------------------------------------- fixed-point arithmetic

\* 1.0, the fixed-point unit
One == 10000
\* 0.5
Half == One \div 2
\* exp(-1.0), in fixed point
ExpMinusOne == 3679
\* scale = 2.0
Scale == 2
\* the 5 of "k = min(5, len(all_embeddings))"
TopK == 5

Min(a, b) == IF a <= b THEN a ELSE b
Max(a, b) == IF a >= b THEN a ELSE b

RECURSIVE Sum(_)
Sum(s) == IF s = <<>> THEN 0 ELSE Head(s) + Sum(Tail(s))

\* exp(-w) for a natural number w
RECURSIVE ExpWhole(_)
ExpWhole(w) == IF w = 0 THEN One ELSE (ExpWhole(w - 1) * ExpMinusOne) \div One

\* The alternating series of exp(-r/den), 0 <= r < den, from its term number k on.
RECURSIVE ExpSeries(_, _, _, _)
ExpSeries(r, den, k, term) ==
    IF term = 0 THEN 0
    ELSE term - ExpSeries(r, den, k + 1, (term * r) \div (den * (k + 1)))

\* np.exp(-num/den) for num >= 0, den > 0
ExpNeg(num, den) ==
    (ExpWhole(num \div den) * ExpSeries(num % den, den, 0, One)) \div One

\* ------------------------------------------------------------ embeddings

\* The vector of dimension d whose first coordinate is x, the others 0.
Vec(d, x) == [j \in 1..d |-> IF j = 1 THEN x ELSE 0]

\* The vectors the embedding provider may return.
Vecs == { Vec(d, x) : d \in 1..MaxDim, x \in 0..MaxCoord }

\* Whether np.array(rows) is a two-dimensional array: all rows of one length.
IsMatrix(rows) == \A a, b \in 1..Len(rows) : Len(rows[a]) = Len(rows[b])

\* The squared Euclidean distance IndexFlatL2 reports.
SqDist(u, v) == Sum([j \in 1..Len(u) |-> (u[j] - v[j]) * (u[j] - v[j])])

\* The members of S as (index, distance) pairs, nearest first; faiss numbers
\* the rows from 0.
RECURSIVE SortByDist(_, _)
SortByDist(S, d) ==
    IF S = {} THEN <<>>
    ELSE LET a == CHOOSE x \in S :
                    \A y \in S : d[x] < d[y] \/ (d[x] = d[y] /\ x <= y)
         IN  <<<<a - 1, d[a]>>>> \o SortByDist(S \ {a}, d)

\* index.search(query, k): the possible results; which of several rows at
\* the same distance make it into the k nearest is not specified.
Search(query, rows, k) ==
    LET d == [j \in 1..Len(rows) |-> SqDist(query, rows[j])]
        nearest == { S \in SUBSET (1..Len(rows)) :
                        /\ Cardinality(S) = k
                        /\ \A a \in S, b \in (1..Len(rows)) \ S : d[a] <= d[b] }
    IN  { SortByDist(S, d) : S \in nearest }

\* ------------------------------------------------ calculate_novelty_score

\* Mutant: one neighbour more requested, to make up for the chunk itself.
NumNeighbours_PlusSelf(n) == Min(TopK + 1, n)

\* k = min(5, len(all_embeddings))
NumNeighbours(n) == Min(TopK, n)

\* Mutant: the row number compared as if faiss numbered the rows from 1.
KeepNeighbour_OneBased(idx, dist, chunk_index) == idx /= chunk_index + 1

\* Mutant: the chunk itself recognised by its distance 0, not by its index.
KeepNeighbour_NonZero(idx, dist, chunk_index) == dist /= 0

\* if idx != chunk_index
KeepNeighbour(idx, dist, chunk_index) == idx /= chunk_index

\* valid_distances: the distances of the pairs kept
ValidPairs(returned, chunk_index) ==
    SelectSeq(returned, LAMBDA pr : KeepNeighbour(pr[1], pr[2], chunk_index))

\* float(min(1.0, max(0.0, novelty)))
Clamp(x) == Min(One, Max(0, x))

\* novelty = 1.0 - np.exp(-avg_distance / scale), clamped
DistanceToScore(valid_distances) ==
    Clamp(One - ExpNeg(Sum(valid_distances), Scale * Len(valid_distances)))

\* if not valid_distances: return 1.0
ScoreOf(valid_distances) ==
    IF valid_distances = <<>> THEN One ELSE DistanceToScore(valid_distances)

\* Mutant: an error scored as fully novel, 1.0 instead of 0.5.
DefaultScore_Novel == One

\* return 0.5  # Default to medium novelty on error
DefaultScore == Half

Failed(err) ==
    [score |-> DefaultScore, err |-> err, returned |-> <<>>, used |-> <<>>,
     built |-> FALSE, index |-> <<>>]

\* index = faiss.IndexFlatL2(dimension); index.add(all_embeddings): the rows
\* the new index holds.
BuildIndex(all_embeddings) == all_embeddings

\* The handler's result when the exception came after the index was built.
FailedAfterBuild(err, all_embeddings) ==
    [Failed(err) EXCEPT !.built = TRUE, !.index = BuildIndex(all_embeddings)]

\* The outcomes of calculate_novelty_score(chunk_embedding, all_embeddings,
\* chunk_index).  err names the exception its handler caught: "shape"
\* (all_embeddings is not two-dimensional), "dimension" (the query's dimension
\* is not the index's), "query" (index.search raised), "transform" (the
\* computation of the score raised).
calculate_novelty_score(chunk_embedding, all_embeddings, chunk_index) ==
    IF ~IsMatrix(all_embeddings) THEN { Failed("shape") }
    ELSE IF Len(chunk_embedding) /= Len(all_embeddings[1])
         THEN { FailedAfterBuild("dimension", all_embeddings) }
    ELSE { FailedAfterBuild("query", all_embeddings),
           FailedAfterBuild("transform", all_embeddings) } \cup
         { LET used == ValidPairs(returned, chunk_index)
           IN  [score |-> ScoreOf([j \in 1..Len(used) |-> used[j][2]]),
                err |-> "none", returned |-> returned, used |-> used,
                built |-> TRUE, index |-> BuildIndex(all_embeddings)]
           : returned \in Search(chunk_embedding, BuildIndex(all_embeddings),
                                 NumNeighbours(Len(all_embeddings))) }

\* --------------------------------------------- generate_prompt_for_chunk

\* The whitespace characters: ' ', a newline, a tab.
Space == <<0, 1>>
Newline == <<0, 2>>
Tab == <<0, 3>>
IsSpace(t) == t[1] = 0

\* A word of a literal of the code, and the literal "Write about: ".
Literal(n) == <<-1, n>>
WriteAbout == <<Literal(1), Space, Literal(2), Space>>

\* chunk.split(): the words, in order, without the whitespace between them
Split(text) == SelectSeq(text, LAMBDA t : ~IsSpace(t))

\* chunk.split()[:50]
FallbackWords == 50

\* Mutant: the words are not cut off.
FirstWords_All(words) == words

\* Mutant: the slice is one word too long.
FirstWords_OneMore(words) == SubSeq(words, 1, Min(FallbackWords + 1, Len(words)))

\* [:50]
FirstWords(words) == SubSeq(words, 1, Min(FallbackWords, Len(words)))

\* ' '.join(words)
RECURSIVE JoinSpace(_)
JoinSpace(words) ==
    IF words = <<>> THEN <<>>
    ELSE IF Len(words) = 1 THEN words
    ELSE <<Head(words), Space>> \o JoinSpace(Tail(words))

\* _generate_prompt_fallback: f"Write about: {' '.join(chunk.split()[:50])}"
generate_prompt_fallback(text, before, after) ==
    [kind |-> "fallback", raised |-> FALSE,
     text |-> WriteAbout \o JoinSpace(FirstWords(Split(text)))]

\* What a provider may answer, stripped: nothing, or some words.
ProviderTexts == { <<>>, <<Literal(3)>> }

\* Mutant: the provider's exception is logged and raised again.
OnProviderError_Reraise(text, before, after) ==
    [kind |-> "provider_failed", raised |-> TRUE, text |-> <<>>]

\* except Exception: return self._generate_prompt_fallback(...)
OnProviderError(text, before, after) ==
    [generate_prompt_fallback(text, before, after) EXCEPT !.kind = "provider_failed"]

\* _generate_prompt_anthropic / _generate_prompt_openai: the provider's
\* answer, or the handler's result when anything in the try block raised.
generate_prompt_provider(text, before, after) ==
    { [kind |-> "provider", raised |-> FALSE, text |-> answer] : answer \in ProviderTexts }
        \cup { OnProviderError(text, before, after) }

LlmTypes == {"anthropic", "openai", "fallback"}

\* The outcomes of generate_prompt_for_chunk(chunk, context_before, context_after)
generate_prompt_for_chunk(t, text, before, after) ==
    IF t \in {"anthropic", "openai"}
    THEN generate_prompt_provider(text, before, after)
    ELSE { generate_prompt_fallback(text, before, after) }

\* os.getenv gives None ("unset") or a string: empty, the placeholder of
\* the sample environment file, or some other value.
KeyValues == {"unset", "empty", "placeholder", "set"}

\* if key and key != 'your_..._api_key_here'
UsableKey(key) == key \notin {"unset", "empty", "placeholder"}

\* _initialize_llm_client: the values self.llm_type may get.  Importing or
\* constructing a client may raise, and the next provider is tried.
initialize_llm_client(akey, okey) ==
    LET after_anthropic == IF UsableKey(okey) THEN {"openai", "fallback"} ELSE {"fallback"}
    IN  IF UsableKey(akey) THEN {"anthropic"} \cup after_anthropic ELSE after_anthropic

NoPrompt == [kind |-> "none", raised |-> FALSE, text |-> <<>>]

\* generate_prompt_for_chunk not being called on its own
PromptIdle ==
    /\ anthropic_key = "unset"
    /\ openai_key = "unset"
    /\ chunk = <<>>
    /\ context_before = <<>>
    /\ context_after = <<>>
    /\ prompt = NoPrompt
    /\ ppc = "idle"

\* ------------------------------------------------------- analyze_novelty

\* Mutant: the handler returns one default score, not one per chunk.
OnError_Single(n) == [raised |-> FALSE, result |-> <<Half>>]

\* Mutant: the handler logs and re-raises.
OnError_Reraise(n) == [raised |-> TRUE, result |-> <<>>]

\* except Exception: return [0.5] * len(chunks)
OnError(n) == [raised |-> FALSE, result |-> [j \in 1..n |-> Half]]

NoStep == [chunk |-> -1, synth |-> "none", prompt |-> <<>>, score |-> 0,
           err |-> "none", returned |-> <<>>, used |-> <<>>]

\* chunks[j]['text'] of the list analyze_novelty is run on: one word each.
ChunkText(j) == <<<<j + 1, 1>>>>

\* chunks[i-1]['text'] if i > 0 else ""
ContextBefore(j) == IF j > 0 THEN ChunkText(j - 1) ELSE <<>>

\* chunks[i+1]['text'] if i < len(chunks) - 1 else ""
ContextAfter(j, n) == IF j < n - 1 THEN ChunkText(j + 1) ELSE <<>>

NoveltyInit ==
    /\ num_chunks \in 0..MaxChunks
    /\ llm_type \in LlmTypes
    /\ embeddings = <<>>
    /\ i = 0
    /\ novelty_scores = <<>>
    /\ result = <<>>
    /\ raised = FALSE
    /\ aborted = "no"
    /\ index = <<>>
    /\ index_builds = 0
    /\ step = NoStep
    /\ pc = "embed"

\* embeddings = self.embedding_model.encode(texts); embeddings = np.array(embeddings)
\* The call may raise.  Rows of different lengths make np.array raise or give
\* a one-dimensional array of objects, depending on the numpy installed.
EmbedAll ==
    /\ pc = "embed"
    /\ \/ /\ aborted' = "corpus"
          /\ result' = OnError(num_chunks).result
          /\ raised' = OnError(num_chunks).raised
          /\ pc' = "done"
          /\ UNCHANGED embeddings
       \/ \E rows \in [1..num_chunks -> Vecs] :
            /\ embeddings' = rows
            /\ \/ /\ pc' = "loop"
                  /\ UNCHANGED <<aborted, result, raised>>
               \/ /\ ~IsMatrix(rows)
                  /\ aborted' = "array"
                  /\ result' = OnError(num_chunks).result
                  /\ raised' = OnError(num_chunks).raised
                  /\ pc' = "done"
    /\ UNCHANGED <<num_chunks, llm_type, i, novelty_scores, index, index_builds, step>>
    /\ UNCHANGED <<chunk_vars, prompt_vars>>

\* One iteration of the loop over the chunks: the description, its
\* embedding, the score.
ProcessChunk ==
    /\ pc = "loop"
    /\ i < num_chunks
    /\ \E synth \in generate_prompt_for_chunk(llm_type, ChunkText(i), ContextBefore(i),
                                              ContextAfter(i, num_chunks)) :
       IF synth.raised
       THEN \* generate_prompt_for_chunk raises
            /\ step' = [NoStep EXCEPT !.chunk = i, !.synth = synth.kind, !.err = "synth"]
            /\ aborted' = "synth"
            /\ result' = OnError(num_chunks).result
            /\ raised' = OnError(num_chunks).raised
            /\ pc' = "done"
            /\ UNCHANGED <<i, novelty_scores, index, index_builds>>
       ELSE \/ \* self.embedding_model.encode([prompt]) raises
               /\ step' = [NoStep EXCEPT !.chunk = i, !.synth = synth.kind,
                                         !.prompt = synth.text, !.err = "embed"]
               /\ aborted' = "chunk"
               /\ result' = OnError(num_chunks).result
               /\ raised' = OnError(num_chunks).raised
               /\ pc' = "done"
               /\ UNCHANGED <<i, novelty_scores, index, index_builds>>
            \/ \E prompt_embedding \in Vecs :
               \E out \in calculate_novelty_score(prompt_embedding, embeddings, i) :
                  /\ step' = [chunk |-> i, synth |-> synth.kind, prompt |-> synth.text,
                              score |-> out.score, err |-> out.err,
                              returned |-> out.returned, used |-> out.used]
                  /\ novelty_scores' = Append(novelty_scores, out.score)
                  /\ index' = IF out.built THEN out.index ELSE index
                  /\ index_builds' = IF out.built THEN index_builds + 1 ELSE index_builds
                  /\ i' = i + 1
                  /\ UNCHANGED <<aborted, result, raised, pc>>
    /\ UNCHANGED <<num_chunks, llm_type, embeddings>>
    /\ UNCHANGED <<chunk_vars, prompt_vars>>

\* return novelty_scores
ReturnScores ==
    /\ pc = "loop"
    /\ i >= num_chunks
    /\ result' = novelty_scores
    /\ pc' = "done"
    /\ UNCHANGED <<num_chunks, llm_type, embeddings, i, novelty_scores, raised,
                   aborted, index, index_builds, step>>
    /\ UNCHANGED <<chunk_vars, prompt_vars>>

\* ------------------------------------------------------------ chunk_text

\* The raw paragraph number p of a text, holding n words (n = 0: only whitespace).
RawPara(p, n) == [j \in 1..n |-> <<p, j>>]

\* The texts chunk_text is run on, as their raw paragraphs.
Texts ==
    UNION { { [p \in 1..len |-> RawPara(p, wc[p])] : wc \in [1..len -> 0..MaxParaWords] }
            : len \in 0..MaxParas }

\* ' '.join(current_chunk): the words of the paragraphs, in order.
RECURSIVE Join(_)
Join(paras) ==
    IF paras = <<>> THEN <<>> ELSE Head(paras) \o Join(Tail(paras))

\* len(para.split())
WordCount(para) == Len(para)

\* Mutant: word_count counts the paragraphs of the chunk, not their words.
MakeChunk_CountParas(cc, cwc) == [text |-> Join(cc), word_count |-> Len(cc)]

\* The dictionary appended to chunks.
MakeChunk(cc, cwc) == [text |-> Join(cc), word_count |-> cwc]

\* Mutant: the new paragraph alone is tested against the maximum.
FitsUnderMax_IgnoresAccumulator(cwc, wc, maxw) == wc <= maxw

\* Mutant: the maximum tested off by one.
FitsUnderMax_OffByOne(cwc, wc, maxw) == cwc + wc <= maxw + 1

\* current_word_count + word_count <= self.max_chunk_words
FitsUnderMax(cwc, wc, maxw) == cwc + wc <= maxw

\* Mutant: any non-empty accumulator counts as large enough.
HasEnoughWords_NonEmpty(cwc, minw) == cwc > 0

\* current_word_count >= self.min_chunk_words
HasEnoughWords(cwc, minw) == cwc >= minw

\* Mutant: the final flush is not guarded.
HasPending_Always(cc) == TRUE

\* if current_chunk:   (the final flush)
HasPending(cc) == cc /= <<>>

\* analyze_novelty not running
NoveltyIdle ==
    /\ num_chunks = 0
    /\ llm_type = "fallback"
    /\ embeddings = <<>>
    /\ i = 0
    /\ novelty_scores = <<>>
    /\ result = <<>>
    /\ raised = FALSE
    /\ aborted = "no"
    /\ index = <<>>
    /\ index_builds = 0
    /\ step = NoStep
    /\ pc = "idle"

ChunkInit ==
    /\ NoveltyIdle
    /\ PromptIdle
    /\ min_chunk_words \in 0..MaxBound
    /\ max_chunk_words \in 0..MaxBound
    /\ paragraphs \in Texts
    /\ para_idx = 1
    /\ chunks = <<>>
    /\ current_chunk = <<>>
    /\ current_word_count = 0
    /\ flushed = <<>>
    /\ cpc = "loop"

\* One iteration of "for para in paragraphs".
ChunkPara ==
    /\ cpc = "loop"
    /\ para_idx <= Len(paragraphs)
    /\ LET para == paragraphs[para_idx]
           word_count == WordCount(para)
       IN  /\ para_idx' = para_idx + 1
           /\ IF para = <<>>
              THEN \* if not para: continue
                   UNCHANGED <<chunks, current_chunk, current_word_count, flushed>>
              ELSE IF FitsUnderMax(current_word_count, word_count, max_chunk_words)
              THEN /\ current_chunk' = Append(current_chunk, para)
                   /\ current_word_count' = current_word_count + word_count
                   /\ UNCHANGED <<chunks, flushed>>
              ELSE IF HasEnoughWords(current_word_count, min_chunk_words)
              THEN /\ chunks' = Append(chunks, MakeChunk(current_chunk, current_word_count))
                   /\ flushed' = Append(flushed, [paras |-> current_chunk, via |-> "flush"])
                   /\ current_chunk' = <<para>>
                   /\ current_word_count' = word_count
              ELSE LET cc == Append(current_chunk, para)
                       cwc == current_word_count + word_count
                   IN  IF HasEnoughWords(cwc, min_chunk_words)
                       THEN /\ chunks' = Append(chunks, MakeChunk(cc, cwc))
                            /\ flushed' = Append(flushed, [paras |-> cc, via |-> "force"])
                            /\ current_chunk' = <<>>
                            /\ current_word_count' = 0
                       ELSE /\ current_chunk' = cc
                            /\ current_word_count' = cwc
                            /\ UNCHANGED <<chunks, flushed>>
    /\ UNCHANGED <<min_chunk_words, max_chunk_words, paragraphs, cpc>>
    /\ UNCHANGED <<novelty_vars, prompt_vars>>

\* After the loop: the final flush and the return.
ChunkReturn ==
    /\ cpc = "loop"
    /\ para_idx > Len(paragraphs)
    /\ IF HasPending(current_chunk)
       THEN /\ chunks' = Append(chunks, MakeChunk(current_chunk, current_word_count))
            /\ flushed' = Append(flushed, [paras |-> current_chunk, via |-> "final"])
       ELSE UNCHANGED <<chunks, flushed>>
    /\ cpc' = "done"
    /\ UNCHANGED <<min_chunk_words, max_chunk_words, paragraphs, para_idx,
                   current_chunk, current_word_count>>
    /\ UNCHANGED <<novelty_vars, prompt_vars>>

ChunkNext == ChunkPara \/ ChunkReturn

SpecChunk == ChunkInit /\ [][ChunkNext]_vars

\* --------------------------------- chunk_text with the default bounds

\* chunk_size_words=(100, 200)
DefaultMinWords == 100
DefaultMaxWords == 200

\* The paragraph lengths of the documented scenario.
ScenarioWordCounts == {90, 120, 140}

\* PDFProcessor() run on a text of up to MaxScenarioParas paragraphs of these lengths.
ScenarioInit ==
    /\ NoveltyIdle
    /\ PromptIdle
    /\ min_chunk_words = DefaultMinWords
    /\ max_chunk_words = DefaultMaxWords
    /\ \E len \in 0..MaxScenarioParas :
       \E wc \in [1..len -> ScenarioWordCounts] :
          paragraphs = [p \in 1..len |-> RawPara(p, wc[p])]
    /\ para_idx = 1
    /\ chunks = <<>>
    /\ current_chunk = <<>>
    /\ current_word_count = 0
    /\ flushed = <<>>
    /\ cpc = "loop"

SpecScenario == ScenarioInit /\ [][ChunkNext]_vars

\* chunk_text not running
ChunkIdle ==
    /\ min_chunk_words = 0
    /\ max_chunk_words = 0
    /\ paragraphs = <<>>
    /\ para_idx = 1
    /\ chunks = <<>>
    /\ current_chunk = <<>>
    /\ current_word_count = 0
    /\ flushed = <<>>
    /\ cpc = "idle"

Init == NoveltyInit /\ ChunkIdle /\ PromptIdle

Next == EmbedAll \/ ProcessChunk \/ ReturnScores

Spec == Init /\ [][Next]_vars

\* ------------------------------- calculate_novelty_score, called on its own

\* The arguments of one call: the embeddings of up to MaxScoreChunks chunks,
\* all of dimension 1, and the index of one of them.
ScoreInit ==
    /\ ChunkIdle
    /\ PromptIdle
    /\ num_chunks \in 1..MaxScoreChunks
    /\ embeddings \in [1..num_chunks -> { Vec(1, x) : x \in 0..MaxCoord }]
    /\ i \in 0..(num_chunks - 1)
    /\ llm_type = "fallback"
    /\ novelty_scores = <<>>
    /\ result = <<>>
    /\ raised = FALSE
    /\ aborted = "no"
    /\ index = <<>>
    /\ index_builds = 0
    /\ step = NoStep
    /\ pc = "score"

\* novelty_score = self.calculate_novelty_score(prompt_embedding, embeddings, i)
ScoreCall ==
    /\ pc = "score"
    /\ \E prompt_embedding \in Vecs :
       \E out \in calculate_novelty_score(prompt_embedding, embeddings, i) :
          /\ step' = [chunk |-> i, synth |-> "fallback", prompt |-> <<>>,
                      score |-> out.score, err |-> out.err,
                      returned |-> out.returned, used |-> out.used]
          /\ index' = IF out.built THEN out.index ELSE index
          /\ index_builds' = IF out.built THEN index_builds + 1 ELSE index_builds
    /\ pc' = "scored"
    /\ UNCHANGED <<num_chunks, llm_type, embeddings, i, novelty_scores, result,
                   raised, aborted>>
    /\ UNCHANGED <<chunk_vars, prompt_vars>>

ScoreNext == ScoreCall

SpecScore == ScoreInit /\ [][ScoreNext]_vars

\* ------------------------------ generate_prompt_for_chunk, called on its own

\* What separates two words of a chunk, and what may surround the chunk.
Separators == { <<Space>>, <<Space, Space>>, <<Newline, Tab>> }
Paddings == { <<>>, <<Space, Newline>> }

\* The words <<1, 1>> .. <<1, n>>, each two separated by sep.
Spaced(n, sep) ==
    LET period == Len(sep) + 1
    IN  [q \in 1..(IF n = 0 THEN 0 ELSE n + (n - 1) * Len(sep)) |->
            IF (q - 1) % period = 0 THEN <<1, ((q - 1) \div period) + 1>>
            ELSE sep[(q - 1) % period]]

\* The neighbouring chunks' texts handed over as context.
Contexts == { <<>>, <<<<2, 1>>, Space, <<2, 2>>>> }

\* A detector constructed in some environment, and the arguments of one call.
PromptInit ==
    /\ ChunkIdle
    /\ anthropic_key \in KeyValues
    /\ openai_key \in KeyValues
    /\ llm_type \in initialize_llm_client(anthropic_key, openai_key)
    /\ \E n \in 0..MaxTokens : \E sep \in Separators : \E pad \in Paddings :
          chunk = pad \o Spaced(n, sep) \o pad
    /\ context_before \in Contexts
    /\ context_after \in Contexts
    /\ prompt = NoPrompt
    /\ ppc = "call"
    /\ num_chunks = 0
    /\ embeddings = <<>>
    /\ i = 0
    /\ novelty_scores = <<>>
    /\ result = <<>>
    /\ raised = FALSE
    /\ aborted = "no"
    /\ index = <<>>
    /\ index_builds = 0
    /\ step = NoStep
    /\ pc = "idle"

\* prompt = self.generate_prompt_for_chunk(chunk, context_before, context_after)
GeneratePrompt ==
    /\ ppc = "call"
    /\ \E out \in generate_prompt_for_chunk(llm_type, chunk, context_before, context_after) :
          prompt' = out
    /\ ppc' = "returned"
    /\ UNCHANGED <<anthropic_key, openai_key, chunk, context_before, context_after>>
    /\ UNCHANGED <<chunk_vars, novelty_vars>>

PromptNext == GeneratePrompt

SpecPrompt == PromptInit /\ [][PromptNext]_vars

\* --------------------------------------------- claims on analyze_novelty

\* [0.5] * len(chunks)
AllDefault == [j \in 1..num_chunks |-> Half]

\* The loop iteration recorded in step ran calculate_novelty_score to its end.
Scored == step.chunk >= 0 /\ step.err = "none"

\* C1: whatever the chunks and whichever provider calls succeed or fail,
\* analyze_novelty returns exactly len(chunks) scores, each in [0.0, 1.0].
C1_LengthAndRange ==
    pc = "done" =>
        /\ Len(result) = num_chunks
        /\ \A j \in 1..Len(result) : 0 <= result[j] /\ result[j] <= One

\* A completed run over two chunks: one score computed from distances, the
\* other defaulted after a failed index query.
C1_Witness ==
    /\ pc = "done"
    /\ num_chunks = 2
    /\ aborted = "no"
    /\ result[1] \notin {0, Half, One}
    /\ step.err = "query"
    /\ result[2] = Half

\* C2 as stated, for the failures the synthesis fallback does not absorb: a
\* failed step of chunk i leaves 0.5 as that chunk's score and aborts
\* nothing: every score computed for another chunk is the one returned for it.
C2_SingleChunkFailureAbsorbed ==
    (pc = "done" /\ aborted \notin {"corpus", "array"}) =>
        /\ Len(result) = num_chunks
        /\ step.err /= "none" => result[step.chunk + 1] = Half
        /\ \A j \in 1..Len(novelty_scores) : result[j] = novelty_scores[j]

\* C3: analyze_novelty never raises to its caller, and a run that fails
\* before any chunk is processed returns 0.5 repeated len(chunks) times.
C3_NeverRaises ==
    /\ ~raised
    /\ (pc = "done" /\ aborted \in {"corpus", "array"}) => result = AllDefault

\* The batch embedding of two chunk texts failed and the run has returned.
C3_Witness ==
    /\ pc = "done"
    /\ aborted = "corpus"
    /\ num_chunks = 2
    /\ novelty_scores = <<>>

\* Embeddings of differing dimensions, or a query vector of another
\* dimension than the index, met in the run so far.
DimensionMismatch ==
    \/ aborted = "array"
    \/ step.err \in {"shape", "dimension"}

C5_SingleChunkIsNovel ==
    /\ (pc = "done" /\ num_chunks = 1 /\ aborted = "no" /\ step.err = "none") =>
          (step.used = <<>> /\ result = <<One>>)
    /\ (Scored /\ step.used = <<>>) => step.score = One

\* A completed run over one chunk whose only neighbour was the chunk itself.
C5_Witness ==
    /\ pc = "done"
    /\ num_chunks = 1
    /\ Scored
    /\ Len(step.returned) = 1
    /\ step.used = <<>>
    /\ result = <<One>>

\* C6: no (neighbour index, distance) pair whose distance enters the average
\* has the scored chunk's own index, and self-exclusion removes at most one
\* of the returned pairs.
C6_SelfExcluded ==
    Scored =>
        /\ \A j \in 1..Len(step.used) : step.used[j][1] /= step.chunk
        /\ Len(step.returned) - Len(step.used) <= 1
        /\ \A j \in 1..Len(step.used) :
              \E m \in 1..Len(step.returned) : step.returned[m] = step.used[j]

\* One of six chunks was scored: the search returned five rows, the chunk
\* itself among them and not the first, and the other four are used.
C6_Witness ==
    /\ Scored
    /\ num_chunks > TopK
    /\ Len(step.returned) = TopK
    /\ \E m \in 2..TopK : step.returned[m][1] = step.chunk
    /\ Len(step.used) = TopK - 1

\* -------------------------------------------------- claims on chunk_text

NonEmptyParas == SelectSeq(paragraphs, LAMBDA para : para /= <<>>)

RECURSIVE JoinTexts(_)
JoinTexts(cs) ==
    IF cs = <<>> THEN <<>> ELSE Head(cs).text \o JoinTexts(Tail(cs))

Words(s) == { s[j] : j \in 1..Len(s) }

\* chunk number c consists of one single paragraph longer than max_words
OversizedSingle(c) ==
    /\ Len(flushed[c].paras) = 1
    /\ WordCount(flushed[c].paras[1]) > max_chunk_words

InBounds(c) ==
    /\ chunks[c].word_count >= min_chunk_words
    /\ chunks[c].word_count <= max_chunk_words

\* C7: every returned chunk other than possibly the last has
\* word_count >= min_words, or consists of one single paragraph longer than
\* max_words, for every text and every pair of bounds.
C7_NonLastMeetsMin ==
    cpc = "done" =>
        \A c \in 1..(Len(chunks) - 1) :
            chunks[c].word_count >= min_chunk_words \/ OversizedSingle(c)

\* A run that emitted a non-last chunk from the plain flush branch and one
\* from the force-append branch, under a minimum that is not trivial.
C7_Witness ==
    /\ cpc = "done"
    /\ min_chunk_words >= 2
    /\ \E c, d \in 1..(Len(chunks) - 1) :
          flushed[c].via = "flush" /\ flushed[d].via = "force"

\* C8 as stated, over the runs with min_chunk_words >= 1: every returned
\* chunk has word_count in [min_chunk_words, max_chunk_words], except
\* possibly the final chunk or a chunk emitted by the force-append branch.
C8_Original ==
    (cpc = "done" /\ min_chunk_words >= 1) =>
        \A c \in 1..Len(chunks) :
            InBounds(c) \/ c = Len(chunks) \/ flushed[c].via = "force"

\* C8 (amended): every returned chunk has word_count in
\* [min_chunk_words, max_chunk_words], except possibly the final chunk, a
\* chunk emitted by the force-append branch, or a chunk that consists of one
\* single paragraph longer than max_chunk_words.
C8_WithinBoundsOrExcepted ==
    cpc = "done" =>
        \A c \in 1..Len(chunks) :
            \/ InBounds(c)
            \/ c = Len(chunks)
            \/ flushed[c].via = "force"
            \/ OversizedSingle(c)

\* A run with a non-final in-bounds chunk of two paragraphs, and a non-final
\* chunk that is one oversized paragraph emitted by the plain flush branch.
C8_Witness ==
    /\ cpc = "done"
    /\ min_chunk_words >= 1
    /\ \E c, d \in 1..(Len(chunks) - 1) :
          /\ InBounds(c) /\ Len(flushed[c].paras) = 2
          /\ flushed[d].via = "flush" /\ OversizedSingle(d)

\* C9 as stated: with 0 <= min_words <= max_words every returned chunk has a
\* non-empty text and word_count >= 1.
C9_NoEmptyChunk ==
    (cpc = "done" /\ min_chunk_words <= max_chunk_words) =>
        \A c \in 1..Len(chunks) :
            chunks[c].text /= <<>> /\ chunks[c].word_count >= 1

\* C10: the returned chunks partition the document: their texts read in chunk
\* order are the non-empty paragraphs of the input in their order, no
\* paragraph is split over two chunks, and each word_count is the number of
\* words of the chunk's paragraphs.
C10_Partition ==
    cpc = "done" =>
        /\ JoinTexts(chunks) = Join(NonEmptyParas)
        /\ \A c \in 1..Len(chunks) :
              /\ \A p \in 1..Len(paragraphs) :
                    \/ Words(paragraphs[p]) \cap Words(chunks[c].text) = {}
                    \/ Words(paragraphs[p]) \subseteq Words(chunks[c].text)
              /\ chunks[c].word_count = Len(chunks[c].text)

\* A run over a text with a whitespace-only paragraph that returned at least
\* two chunks, one of them made of two paragraphs of more than one word.
C10_Witness ==
    /\ cpc = "done"
    /\ Len(chunks) >= 2
    /\ Len(NonEmptyParas) < Len(paragraphs)
    /\ \E c \in 1..Len(chunks) :
          /\ Len(flushed[c].paras) = 2
          /\ \A k \in 1..2 : WordCount(flushed[c].paras[k]) >= 2

\* The input of the scenario: three paragraphs of 120, 140 and 90 words.
ScenarioInput ==
    /\ Len(paragraphs) = 3
    /\ WordCount(paragraphs[1]) = 120
    /\ WordCount(paragraphs[2]) = 140
    /\ WordCount(paragraphs[3]) = 90

\* C11 as stated: on paragraphs of 120, 140 and 90 words with bounds
\* (100, 200), chunk_text returns exactly 2 chunks, the first being
\* paragraph 1 alone with word_count 120.
C11_Original ==
    (cpc = "done" /\ ScenarioInput) =>
        /\ Len(chunks) = 2
        /\ chunks[1] = [text |-> paragraphs[1], word_count |-> 120]

\* C11 (amended): on that input chunk_text returns exactly 3 chunks, each
\* paragraph alone, the first being paragraph 1 with word_count 120.
C11_ThreeChunks ==
    (cpc = "done" /\ ScenarioInput) =>
        /\ Len(chunks) = 3
        /\ chunks[1] = [text |-> paragraphs[1], word_count |-> 120]
        /\ chunks[2] = [text |-> paragraphs[2], word_count |-> 140]
        /\ chunks[3] = [text |-> paragraphs[3], word_count |-> 90]

\* The scenario has run to its end.
C11_Witness ==
    /\ cpc = "done"
    /\ ScenarioInput
    /\ min_chunk_words = 100
    /\ max_chunk_words = 200
    /\ Len(chunks) = 3

\* The word counts of a list of paragraphs.
WordCounts(paras) == [j \in 1..Len(paras) |-> WordCount(paras[j])]

\* The words chunk number c held before its paragraph number k was appended.
WordsBefore(c, k) == Sum(SubSeq(WordCounts(flushed[c].paras), 1, k - 1))

\* Paragraph number k of chunk c was appended by the force-append branch:
\* the accumulator held fewer than min_words words and the paragraph did
\* not fit under max_words.
ForceAppended(c, k) ==
    /\ WordsBefore(c, k) < min_chunk_words
    /\ WordsBefore(c, k) + WordCount(flushed[c].paras[k]) > max_chunk_words

\* C12 as stated, over the runs with 1 <= min_words <= max_words: a paragraph
\* longer than max_words is returned as a chunk of its own.
C12_Original ==
    (cpc = "done" /\ 1 <= min_chunk_words /\ min_chunk_words <= max_chunk_words) =>
        \A p \in 1..Len(paragraphs) :
            WordCount(paragraphs[p]) > max_chunk_words =>
                \E c \in 1..Len(chunks) : chunks[c].text = paragraphs[p]

\* C12 (amended): a paragraph longer than max_words is never split, and the
\* chunk that contains it contains no other paragraph unless the force-append
\* branch merged them: the paragraph was appended to a non-empty accumulator
\* of fewer than min_words words, or it is itself shorter than min_words and
\* had the next paragraph appended to it.
C12_OversizedAloneUnlessForced ==
    cpc = "done" =>
        \A p \in 1..Len(paragraphs) :
            WordCount(paragraphs[p]) > max_chunk_words =>
                \E c \in 1..Len(chunks) :
                \E k \in 1..Len(flushed[c].paras) :
                    /\ flushed[c].paras[k] = paragraphs[p]
                    /\ chunks[c].text = Join(flushed[c].paras)
                    /\ \/ Len(flushed[c].paras) = 1
                       \/ k > 1 /\ ForceAppended(c, k)
                       \/ /\ k < Len(flushed[c].paras)
                          /\ WordCount(paragraphs[p]) < min_chunk_words
                          /\ ForceAppended(c, k + 1)

\* A run with min_words <= max_words that returned one oversized paragraph
\* alone, from the plain flush branch, and another merged by force-append.
C12_Witness ==
    /\ cpc = "done"
    /\ 1 <= min_chunk_words /\ min_chunk_words <= max_chunk_words
    /\ \E c, d \in 1..Len(chunks) :
          /\ flushed[c].via = "flush" /\ OversizedSingle(c)
          /\ flushed[d].via = "force" /\ Len(flushed[d].paras) = 2
          /\ WordCount(flushed[d].paras[2]) > max_chunk_words

\* C15: a text that is empty or holds only whitespace and blank lines gives
\* an empty chunk sequence, whatever the bounds.
C15_EmptyTextNoChunks ==
    (cpc = "done" /\ NonEmptyParas = <<>>) => chunks = <<>>

\* A run over two whitespace-only paragraphs, with min_words = 0, has ended.
C15_Witness ==
    /\ cpc = "done"
    /\ Len(paragraphs) = 2
    /\ NonEmptyParas = <<>>
    /\ min_chunk_words = 0
    /\ chunks = <<>>

\* The iteration about to run takes the force-append branch.
AtForceAppend ==
    /\ cpc = "loop"
    /\ para_idx <= Len(paragraphs)
    /\ paragraphs[para_idx] /= <<>>
    /\ current_word_count + WordCount(paragraphs[para_idx]) > max_chunk_words
    /\ current_word_count < min_chunk_words

C18_AccumulatorInv ==
    min_chunk_words <= max_chunk_words =>
        /\ cpc = "loop" =>
              \/ current_chunk = <<>>
              \/ Len(current_chunk) = 1
              \/ current_word_count <= max_chunk_words
        /\ current_word_count = Sum(WordCounts(current_chunk))
        /\ \A c \in 1..Len(chunks) :
              (Len(flushed[c].paras) >= 2 /\ chunks[c].word_count > max_chunk_words) =>
                  WordsBefore(c, Len(flushed[c].paras)) < min_chunk_words

C18_ForceAppendFlushes ==
    (min_chunk_words <= max_chunk_words /\ AtForceAppend) =>
        /\ current_chunk' = <<>>
        /\ current_word_count' = 0
        /\ Len(chunks') = Len(chunks) + 1
        /\ chunks'[Len(chunks')].word_count =
              current_word_count + WordCount(paragraphs[para_idx])

\* C18: with min_words <= max_words, at the start of every iteration the
\* accumulator is empty, or one paragraph, or within max_words, and its running
\* count is the sum of its paragraphs' word counts; the force-append branch
\* always flushes and resets the accumulator in the same step; and every
\* returned chunk of two or more paragraphs that exceeds max_words held fewer
\* than min_words words before its last paragraph was appended.
C18_Accumulator ==
    []C18_AccumulatorInv /\ [][C18_ForceAppendFlushes]_vars

\* With min_words <= max_words the force-append branch has emitted a chunk
\* of two paragraphs that exceeds max_words, and the loop goes on with an
\* accumulator of two paragraphs.
C18_Witness ==
    /\ min_chunk_words <= max_chunk_words
    /\ cpc = "loop"
    /\ Len(current_chunk) = 2
    /\ \E c \in 1..Len(chunks) :
          /\ flushed[c].via = "force"
          /\ Len(flushed[c].paras) = 2
          /\ chunks[c].word_count > max_chunk_words

\* The scored chunk's own index is among the rows the search returned.
SelfReturned == \E m \in 1..Len(step.returned) : step.returned[m][1] = step.chunk

\* C17: with no error, min(5, N) neighbours are requested before
\* self-exclusion; the number of distances averaged is k-1 when the scored
\* chunk's own index is among the k nearest and k otherwise; it is N-1 for
\* 2 <= N <= 5, it is 4 or 5 for N > 5, and it is never more than 5.
C17_NeighbourCount ==
    (pc = "scored" /\ Scored) =>
        LET k == Min(TopK, num_chunks)
            averaged == Len(step.used)
        IN  /\ Len(step.returned) = k
            /\ averaged = IF SelfReturned THEN k - 1 ELSE k
            /\ (2 <= num_chunks /\ num_chunks <= TopK) => averaged = num_chunks - 1
            /\ num_chunks > TopK => averaged \in {TopK - 1, TopK}
            /\ averaged <= TopK

\* One of six chunks was scored and its own index is not among the five
\* rows returned: five distances are averaged.
C17_Witness ==
    /\ pc = "scored" /\ Scored
    /\ num_chunks > TopK
    /\ ~SelfReturned
    /\ Len(step.used) = TopK

\* C13: a failure of the configured provider is caught inside
\* generate_prompt_for_chunk, which then returns the fallback description;
\* with no provider configured the fallback is used directly; in neither case
\* does an error reach the caller of analyze_novelty or turn a score into the
\* 0.5 default: the run is never sent to the outer handler by the
\* description, and a chunk whose description fell back is scored from the
\* distances of its neighbours.
C13_ProviderFailureAbsorbed ==
    /\ ~raised
    /\ aborted \in {"no", "corpus", "array", "chunk"}
    /\ step.chunk >= 0 =>
          /\ step.err /= "synth"
          /\ llm_type = "fallback" => step.synth = "fallback"
          /\ step.synth \in {"provider_failed", "fallback"} =>
                step.prompt = WriteAbout \o ChunkText(step.chunk)
          /\ Scored =>
                /\ step.score = ScoreOf([j \in 1..Len(step.used) |-> step.used[j][2]])
                /\ novelty_scores[step.chunk + 1] = step.score
    /\ (pc = "done" /\ aborted = "no") => result = novelty_scores

\* A run over two chunks returned its scores although the provider's call
\* for the second chunk raised; that chunk's score is not the default.
C13_Witness ==
    /\ pc = "done"
    /\ ~raised
    /\ aborted = "no"
    /\ llm_type = "anthropic"
    /\ num_chunks = 2
    /\ step.chunk = 1
    /\ step.synth = "provider_failed"
    /\ Scored
    /\ result = novelty_scores
    /\ result[2] /= Half

\* The number of whitespace-delimited tokens of the chunk argument.
NumTokens == Cardinality({ q \in 1..Len(chunk) : ~IsSpace(chunk[q]) })

\* "Write about: " followed by the first min(50, n) tokens, one space
\* between each two.  The tokens of the chunk are <<1, 1>>, <<1, 2>>, ...
ExpectedDescription ==
    LET m == Min(FallbackWords, NumTokens)
    IN  WriteAbout \o [q \in 1..(IF m = 0 THEN 0 ELSE 2 * m - 1) |->
                          IF q % 2 = 1 THEN <<1, (q + 1) \div 2>> ELSE Space]

\* C14: with no provider configured, the description of every chunk text is
\* "Write about: " followed by the first min(50, n) whitespace-delimited
\* tokens of the chunk joined by single spaces, whatever the two contexts.
C14_FallbackDescription ==
    /\ (~UsableKey(anthropic_key) /\ ~UsableKey(openai_key)) => llm_type = "fallback"
    /\ (ppc = "returned" /\ llm_type = "fallback") =>
          /\ prompt.kind = "fallback"
          /\ ~prompt.raised
          /\ prompt.text = ExpectedDescription

\* With no key set, a chunk of 52 tokens, padded and separated by more than
\* single spaces, with both contexts given, is described by its first 50.
C14_Witness ==
    /\ ppc = "returned"
    /\ anthropic_key = "unset" /\ openai_key = "unset"
    /\ NumTokens = FallbackWords + 2
    /\ Len(chunk) > 2 * NumTokens
    /\ context_before /= <<>> /\ context_after /= <<>>
    /\ Len(prompt.text) = Len(WriteAbout) + 2 * FallbackWords - 1
    /\ prompt.text[Len(prompt.text)] = <<1, FallbackWords>>

\* C16: within one run the similarity index is built exactly once, after the
\* batch embedding has completed, from exactly the embeddings of all chunks,
\* and is not rebuilt while the chunks are scored.
C16_IndexBuiltOnce ==
    /\ index_builds <= 1
    /\ index_builds >= 1 => (pc \in {"loop", "done"} /\ index = embeddings)

====
